---- MODULE Spec2Model ----
(***************************************************************************)
(* crosreleasenotifier: the release pipeline of src/main.rs (get_releases  *)
(* and main) and the two html2text decorators of src/decorators.rs.        *)
(*                                                                         *)
(* Text is modelled as a sequence of tokens.  A token is a string: the     *)
(* newline "\n", a whitespace run " ", one of the phrases the line filter  *)
(* searches for, or some other word.  `contains` is membership of a phrase *)
(* token, `split`, `join`, `dedup`, `truncate` and `trim` are computed on  *)
(* the token sequences the way the standard library computes them.         *)
(***************************************************************************)
EXTENDS Integers, Sequences, FiniteSets, TLC

VARIABLES
    feed,            \* feed.entries as parsed from the response (main.rs:92)
    opts,            \* the parsed Cli (main.rs:171)
    cache,           \* content of the cache file last_release: None or Some(ts)
    pc,              \* position of main / get_releases
    idx,             \* index of the entry the iterator pipeline is at
    lines,           \* main.rs:115
    li,              \* position of the `for line in lines.iter()` loop
    should_filter,   \* main.rs:113
    filtered,        \* main.rs:121
    summary,         \* main.rs:122
    releases,        \* the Vec<Release> of get_releases / main
    produced,        \* the Vec<Release> as get_releases returned it (main.rs:172)
    shown,           \* number of Releases the output step has emitted
    err,             \* the step whose error main returned, "none" if none
    cache0,          \* content of the cache file when this run of main began
    reported,        \* Releases output by the runs with --diff that returned Ok
    cache_lost,      \* a failed write has left the cache file unreadable
    decos,           \* decorator instances: [variant, cell]
    heap,            \* the currentlink String each instance owns
    ret,             \* the last decorator call and what it returned
    opened,          \* per instance: the url of its last decorate_link_start
    inherited,       \* per instance: the currentlink it was constructed with
    origin,          \* per instance: the instance it was cloned from, 0 for new()
    open_links       \* per instance: urls of the links opened and not yet closed

vars == <<feed, opts, cache, pc, idx, lines, li, should_filter, filtered,
          summary, releases, produced, shown, err, cache0, reported,
          cache_lost, decos, heap, ret, opened,
          inherited, origin, open_links>>

mainVars == <<feed, opts, cache, pc, idx, lines, li, should_filter, filtered,
              summary, releases, produced, shown, err, cache0, reported,
              cache_lost>>

decVars == <<decos, heap, ret, opened, inherited, origin, open_links>>

----------------------------------------------------------------------------
(* Bounds of the model *)

MaxBody == 3
MaxEntries == 2
MaxTs == 2
MaxDecorators == 2
MaxOpenLinks == 2

----------------------------------------------------------------------------
(* Option<T>: None is the empty sequence, Some(v) the one-element sequence *)

None == <<>>

Some(v) == <<v>>

----------------------------------------------------------------------------
(* Tokens *)

NL == "\n"

Whitespace == {" "}

WantToKnow == "Want to know"

UpdatePatterns ==
    {"is being updated", "has been updated", "is updated in", "was updated in",
     "has been promoted to", "A new LT", "The new LT"}

ReferencePatterns == {"See the latest release", "Release notes for"}

SecurityPatterns ==
    {"This update contains selective Security fixes",
     "This update contains selected Security fixes",
     "This update contains multiple Security fixes",
     "ChromeOS Vulnerability Bug Fixes",
     "Security Fixes And Rewards"}

ChromeOSTerms == {"ChromeOS", "Chrome OS", "ChromeOS Flex", "Chrome OS Flex"}

NoContent == <<"No content.">>

TruncateCount == 4

----------------------------------------------------------------------------
(* Strings and vectors *)

\* str::contains for any of the phrases `pats`
Contains(line, pats) == \E i \in 1..Len(line) : line[i] \in pats

\* str::split('\n').collect()
RECURSIVE SplitFrom(_, _, _)
SplitFrom(text, i, cur) ==
    IF i > Len(text) THEN <<cur>>
    ELSE IF text[i] = NL THEN <<cur>> \o SplitFrom(text, i + 1, <<>>)
    ELSE SplitFrom(text, i + 1, Append(cur, text[i]))

Split(text) == SplitFrom(text, 1, <<>>)

\* [&str]::join("\n")
RECURSIVE Join(_)
Join(ls) ==
    IF ls = <<>> THEN <<>>
    ELSE IF Len(ls) = 1 THEN ls[1]
    ELSE ls[1] \o <<NL>> \o Join(Tail(ls))

\* a removal of every element that occurred anywhere before
RECURSIVE DedupAll(_)
DedupAll(ls) ==
    IF Len(ls) <= 1 THEN ls
    ELSE LET d == DedupAll(SubSeq(ls, 1, Len(ls) - 1))
         IN  IF \E i \in DOMAIN d : d[i] = ls[Len(ls)] THEN d
             ELSE Append(d, ls[Len(ls)])

\* Vec::dedup: an element equal to the one kept just before it is removed
RECURSIVE Dedup(_)
Dedup(ls) ==
    IF Len(ls) <= 1 THEN ls
    ELSE LET d == Dedup(SubSeq(ls, 1, Len(ls) - 1))
         IN  IF d[Len(d)] = ls[Len(ls)] THEN d ELSE Append(d, ls[Len(ls)])

\* a subtraction that leaves a length below b as it is
SubOrKeep(a, b) == IF a >= b THEN a - b ELSE a

\* usize::saturating_sub
SaturatingSub(a, b) == IF a >= b THEN a - b ELSE 0

\* Vec::truncate: no effect when n is not less than the length
Truncate(ls, n) == IF n >= Len(ls) THEN ls ELSE SubSeq(ls, 1, n)

\* line.split("Want to know").next(): the part before the first occurrence
RECURSIVE SplitNext(_, _)
SplitNext(line, sep) ==
    IF line = <<>> THEN <<>>
    ELSE IF Head(line) = sep THEN <<>>
    ELSE <<Head(line)>> \o SplitNext(Tail(line), sep)

RECURSIVE TrimStart(_)
TrimStart(s) ==
    IF s = <<>> THEN s
    ELSE IF Head(s) \in Whitespace THEN TrimStart(Tail(s))
    ELSE s

RECURSIVE TrimEnd(_)
TrimEnd(s) ==
    IF s = <<>> THEN s
    ELSE IF s[Len(s)] \in Whitespace THEN TrimEnd(SubSeq(s, 1, Len(s) - 1))
    ELSE s

\* str::trim
Trim(s) == TrimEnd(TrimStart(s))

----------------------------------------------------------------------------
(* get_releases: the iterator pipeline over feed.entries *)

\* a category test that looks at the first term only
CategoryMatchFirst(e) ==
    Len(e.categories) > 0 /\ e.categories[1] \in ChromeOSTerms

\* the .filter closure, main.rs:96-100
CategoryMatch(e) ==
    \E i \in 1..Len(e.categories) : e.categories[i] \in ChromeOSTerms

\* a field test that forgets the title
HasFieldsNoTitle(e) == e.content # None /\ e.updated # None

\* the .filter_map closure, main.rs:101: Some((x.title?, x.content?, x.updated?))
HasFields(e) == e.title # None /\ e.content # None /\ e.updated # None

\* main.rs:103-111: content.body.map(html2md).unwrap_or_else("No content.").
\* html2md is the external renderer: a body is carried as the text it renders to.
Parsed(e) ==
    IF e.content[1].body = None THEN NoContent ELSE e.content[1].body[1]

\* main.rs:115-119
InitialLines(text, sf) ==
    LET all == Split(text)
    IN  IF sf
        THEN LET d == Dedup(all)
             IN  Truncate(d, SaturatingSub(Len(d), TruncateCount))
        ELSE all

\* the cut without the trim
FormattedNoTrim(line) == SplitNext(line, WantToKnow)

\* main.rs:134-138
Formatted(line) == Trim(SplitNext(line, WantToKnow))

\* main.rs:126-132, 141-142, 145-149: the conditions of the if / else if chain
IsUpdate(line) == Contains(line, UpdatePatterns)

IsReference(line) == Contains(line, ReferencePatterns)

IsSecurity(line) == Contains(line, SecurityPatterns)

\* the loop body whose security branch leaves should_filter set
FilterLineNoLatch(sf, out, summ, line) ==
    IF sf
    THEN IF Contains(line, UpdatePatterns)
         THEN [should_filter |-> sf,
               filtered |-> Append(out, Trim(SplitNext(line, WantToKnow))),
               summary |-> Trim(SplitNext(line, WantToKnow))]
         ELSE IF Contains(line, ReferencePatterns)
         THEN [should_filter |-> sf,
               filtered |-> Append(out, line),
               summary |-> summ]
         ELSE IF Contains(line, SecurityPatterns)
         THEN [should_filter |-> sf,
               filtered |-> Append(Append(out, <<>>), line),
               summary |-> summ]
         ELSE [should_filter |-> sf, filtered |-> out, summary |-> summ]
    ELSE [should_filter |-> sf, filtered |-> Append(out, line), summary |-> summ]

\* the loop body whose update branch keeps a summary once it is set
FilterLineFirstSummary(sf, out, summ, line) ==
    IF sf
    THEN IF Contains(line, UpdatePatterns)
         THEN [should_filter |-> sf,
               filtered |-> Append(out, Trim(SplitNext(line, WantToKnow))),
               summary |-> IF summ = <<>>
                           THEN Trim(SplitNext(line, WantToKnow))
                           ELSE summ]
         ELSE IF Contains(line, ReferencePatterns)
         THEN [should_filter |-> sf,
               filtered |-> Append(out, line),
               summary |-> summ]
         ELSE IF Contains(line, SecurityPatterns)
         THEN [should_filter |-> FALSE,
               filtered |-> Append(Append(out, <<>>), line),
               summary |-> summ]
         ELSE [should_filter |-> sf, filtered |-> out, summary |-> summ]
    ELSE [should_filter |-> sf, filtered |-> Append(out, line), summary |-> summ]

\* the loop body whose security branch appends the line alone
FilterLineNoSeparator(sf, out, summ, line) ==
    IF sf
    THEN IF Contains(line, UpdatePatterns)
         THEN [should_filter |-> sf,
               filtered |-> Append(out, Trim(SplitNext(line, WantToKnow))),
               summary |-> Trim(SplitNext(line, WantToKnow))]
         ELSE IF Contains(line, ReferencePatterns)
         THEN [should_filter |-> sf,
               filtered |-> Append(out, line),
               summary |-> summ]
         ELSE IF Contains(line, SecurityPatterns)
         THEN [should_filter |-> FALSE,
               filtered |-> Append(out, line),
               summary |-> summ]
         ELSE [should_filter |-> sf, filtered |-> out, summary |-> summ]
    ELSE [should_filter |-> sf, filtered |-> Append(out, line), summary |-> summ]

\* the loop body that tests the security patterns first
FilterLineSecurityFirst(sf, out, summ, line) ==
    IF sf
    THEN IF Contains(line, SecurityPatterns)
         THEN [should_filter |-> FALSE,
               filtered |-> Append(Append(out, <<>>), line),
               summary |-> summ]
         ELSE IF Contains(line, UpdatePatterns)
         THEN [should_filter |-> sf,
               filtered |-> Append(out, Trim(SplitNext(line, WantToKnow))),
               summary |-> Trim(SplitNext(line, WantToKnow))]
         ELSE IF Contains(line, ReferencePatterns)
         THEN [should_filter |-> sf,
               filtered |-> Append(out, line),
               summary |-> summ]
         ELSE [should_filter |-> sf, filtered |-> out, summary |-> summ]
    ELSE [should_filter |-> sf, filtered |-> Append(out, line), summary |-> summ]

\* the loop body that keeps a line without any pattern
FilterLineKeepsAll(sf, out, summ, line) ==
    IF sf
    THEN IF Contains(line, UpdatePatterns)
         THEN [should_filter |-> sf,
               filtered |-> Append(out, Trim(SplitNext(line, WantToKnow))),
               summary |-> Trim(SplitNext(line, WantToKnow))]
         ELSE IF Contains(line, ReferencePatterns)
         THEN [should_filter |-> sf,
               filtered |-> Append(out, line),
               summary |-> summ]
         ELSE IF Contains(line, SecurityPatterns)
         THEN [should_filter |-> FALSE,
               filtered |-> Append(Append(out, <<>>), line),
               summary |-> summ]
         ELSE [should_filter |-> sf, filtered |-> Append(out, line), summary |-> summ]
    ELSE [should_filter |-> sf, filtered |-> Append(out, line), summary |-> summ]

\* the loop body that takes the summary from an update line after the latch too
FilterLineSummaryAlways(sf, out, summ, line) ==
    IF sf
    THEN IF Contains(line, UpdatePatterns)
         THEN [should_filter |-> sf,
               filtered |-> Append(out, Trim(SplitNext(line, WantToKnow))),
               summary |-> Trim(SplitNext(line, WantToKnow))]
         ELSE IF Contains(line, ReferencePatterns)
         THEN [should_filter |-> sf,
               filtered |-> Append(out, line),
               summary |-> summ]
         ELSE IF Contains(line, SecurityPatterns)
         THEN [should_filter |-> FALSE,
               filtered |-> Append(Append(out, <<>>), line),
               summary |-> summ]
         ELSE [should_filter |-> sf, filtered |-> out, summary |-> summ]
    ELSE [should_filter |-> sf,
          filtered |-> Append(out, line),
          summary |-> IF Contains(line, UpdatePatterns)
                      THEN Trim(SplitNext(line, WantToKnow))
                      ELSE summ]

\* main.rs:125-157: the body of the loop for one line
FilterLine(sf, out, summ, line) ==
    IF sf
    THEN IF IsUpdate(line)
         THEN [should_filter |-> sf,
               filtered |-> Append(out, Formatted(line)),
               summary |-> Formatted(line)]
         ELSE IF IsReference(line)
         THEN [should_filter |-> sf,
               filtered |-> Append(out, line),
               summary |-> summ]
         ELSE IF IsSecurity(line)
         THEN [should_filter |-> FALSE,
               filtered |-> Append(Append(out, <<>>), line),
               summary |-> summ]
         ELSE [should_filter |-> sf, filtered |-> out, summary |-> summ]
    ELSE [should_filter |-> sf, filtered |-> Append(out, line), summary |-> summ]

\* main.rs:159-164
MakeRelease(e, summ, out) ==
    [title |-> e.title[1], summary |-> summ, content |-> Join(out),
     timestamp |-> e.updated[1]]

----------------------------------------------------------------------------
(* main: sort and cutoff *)

\* Vec::sort_by(|x, y| y.timestamp.cmp(&x.timestamp)) is a stable sort
RECURSIVE InsertDesc(_, _)
InsertDesc(sorted, r) ==
    IF sorted = <<>> THEN <<r>>
    ELSE IF Head(sorted).timestamp >= r.timestamp
    THEN <<Head(sorted)>> \o InsertDesc(Tail(sorted), r)
    ELSE <<r>> \o sorted

\* a sort that leaves the Vec as it was collected
SortNone(rs) == rs

RECURSIVE SortDesc(_)
SortDesc(rs) ==
    IF rs = <<>> THEN <<>>
    ELSE InsertDesc(SortDesc(SubSeq(rs, 1, Len(rs) - 1)), rs[Len(rs)])

\* a cutoff test that keeps a Release as old as the cutoff
NewerOrEqual(r, diff_date) == r.timestamp >= diff_date

\* the retain closure, main.rs:181
Newer(r, diff_date) == r.timestamp > diff_date

\* Vec::retain
RECURSIVE Retain(_, _)
Retain(rs, diff_date) ==
    IF rs = <<>> THEN <<>>
    ELSE IF Newer(Head(rs), diff_date)
    THEN <<Head(rs)>> \o Retain(Tail(rs), diff_date)
    ELSE Retain(Tail(rs), diff_date)

\* main.rs:176-179: --diff and the cache file reads and parses as a timestamp
CutoffApplies(o, c) == o.diff /\ c # None

----------------------------------------------------------------------------
(* decorators.rs: MdDecorator and PlainDecorator *)

Variants == {"Markdown", "Plain"}

Urls == {"u1", "u2"}

\* decorate_link_start: the text returned, decorators.rs:21 and :113
LinkPrefix(variant) == IF variant = "Markdown" THEN <<"[">> ELSE <<>>

\* decorate_link_end: format!("]({})", ..) and format!(" ({})", ..)
LinkSuffix(variant, link) ==
    IF variant = "Markdown" THEN <<"](", link, ")">> ELSE <<" (", link, ")">>

\* a copy that shares the String of the original
ShareCell(h, c) == [heap |-> h, cell |-> c]

\* #[derive(Clone)] on a struct holding a String: the copy owns a new String
\* with the same content
CloneCell(h, c) == [heap |-> Append(h, h[c]), cell |-> Len(h) + 1]

\* a store that keeps a target once one is recorded
StoreLinkOnce(h, c, url) == IF h[c] = "" THEN [h EXCEPT ![c] = url] ELSE h

\* decorate_link_start: self.currentlink = _url.into()
StoreLink(h, c, url) == [h EXCEPT ![c] = url]

\* decorate_link_end reads self.currentlink
CurrentLink(i) == heap[decos[i].cell]

----------------------------------------------------------------------------
(* The inputs of a run *)

LineUpdateWant == <<" ", "has been updated", " ", WantToKnow, "more", WantToKnow>>

LineUpdatePlain == <<"A new LT", " ">>

LineReference == <<"Release notes for", WantToKnow>>

LineSecurity == <<"Security Fixes And Rewards">>

LineUpdateSecurity == <<"is being updated", "ChromeOS Vulnerability Bug Fixes">>

LineReferenceSecurity ==
    <<"See the latest release", "This update contains selected Security fixes">>

LineOther == <<"x">>

LineEmpty == <<>>

LinePool ==
    {LineUpdateWant, LineUpdatePlain, LineReference, LineSecurity,
     LineUpdateSecurity, LineReferenceSecurity, LineOther, LineEmpty}

\* what follows the body of an announcement
Footer == <<(<<"f1">>), (<<"f2">>), (<<"f3">>), (<<"f4">>)>>

FooterRepeating == <<(<<"f1">>), (<<"f1">>), (<<"f2">>), (<<"f3">>)>>

FooterPatterns == <<LineUpdatePlain, LineSecurity, LineOther, LineReference>>

Tails == {<<>>, Footer, FooterRepeating, FooterPatterns}

Bodies == UNION {[1..k -> LinePool] : k \in 0..MaxBody}

RichTexts == {Join(b \o t) : b \in Bodies, t \in Tails}

TextLatch == Join(<<LineUpdateWant, LineSecurity, LineOther>> \o Footer)

TextPlain == Join(<<LineReference, LineOther>> \o Footer)

\* six lines without any pattern, the first repeated
TextSixLines ==
    Join(<<(<<"A">>), (<<"A">>), (<<"B">>), (<<"C">>), (<<"D">>), (<<"E">>)>>)

Entry(cats, title, content, updated) ==
    [categories |-> cats, title |-> title, content |-> content,
     updated |-> updated]

Body(text) == Some([body |-> Some(text)])

RichEntries ==
    {Entry(<<"ChromeOS">>, Some("T1"), Body(t), Some(1)) : t \in RichTexts}

SmallEntries ==
    {Entry(<<"ChromeOS">>, Some("T1"), Body(TextLatch), Some(t)) : t \in 1..MaxTs}
    \cup {Entry(<<"Chrome OS">>, Some("T2"), Body(TextPlain), Some(1)),
          Entry(<<"Chrome">>, Some("T3"), Body(TextPlain), Some(MaxTs))}

VariantEntries ==
    {Entry(<<"Stable updates", "Chrome OS Flex">>, Some("T1"), Body(TextLatch), Some(1)),
     Entry(<<"Beta updates", "ChromeOS Flex">>, Some("T1"), Body(TextLatch), Some(1)),
     Entry(<<"chromeos", "ChromeOS ">>, Some("T1"), Body(TextLatch), Some(1)),
     Entry(<<>>, Some("T1"), Body(TextLatch), Some(1)),
     Entry(<<"ChromeOS">>, None, Body(TextLatch), Some(1)),
     Entry(<<"ChromeOS">>, Some("T1"), None, Some(1)),
     Entry(<<"ChromeOS">>, Some("T1"), Some([body |-> None]), Some(1)),
     Entry(<<"ChromeOS">>, Some("T1"), Body(TextLatch), None),
     Entry(<<"Chrome">>, None, None, None),
     Entry(<<"ChromeOS">>, Some("T1"), Body(TextSixLines), Some(1))}

Formats == {"Json", "Pretty", "Notification"}

AllOpts ==
    [unfiltered : BOOLEAN, diff : BOOLEAN, format : Formats]

CacheValues == {None} \cup {Some(t) : t \in 1..MaxTs}

SmallFeeds ==
    UNION {[1..k -> SmallEntries] : k \in 0..MaxEntries}
    \cup {<<e>> : e \in VariantEntries}

Inputs ==
    {[feed |-> <<e>>,
      opts |-> [unfiltered |-> u, diff |-> FALSE, format |-> "Pretty"],
      cache |-> None] : e \in RichEntries, u \in BOOLEAN}
    \cup [feed : SmallFeeds, opts : AllOpts, cache : CacheValues]

----------------------------------------------------------------------------
(* Initial states *)

NoCall == [op |-> "none", inst |-> 0, text |-> <<>>, closed |-> None]

InitDecorators ==
    /\ decos = <<>>
    /\ heap = <<>>
    /\ ret = NoCall
    /\ opened = <<>>
    /\ inherited = <<>>
    /\ origin = <<>>
    /\ open_links = <<>>

InitLocals ==
    /\ idx = 1
    /\ lines = <<>>
    /\ li = 1
    /\ should_filter = FALSE
    /\ filtered = <<>>
    /\ summary = <<>>
    /\ releases = <<>>
    /\ produced = <<>>
    /\ shown = 0
    /\ err = "none"
    /\ cache0 = cache
    /\ reported = {}
    /\ cache_lost = FALSE

Init ==
    /\ \E inp \in Inputs :
          /\ feed = inp.feed
          /\ opts = inp.opts
          /\ cache = inp.cache
    /\ pc = "fetch"
    /\ InitLocals
    /\ InitDecorators

\* no run of main: only decorators are constructed and called
InitDec ==
    /\ feed = <<>>
    /\ opts = [unfiltered |-> FALSE, diff |-> FALSE, format |-> "Pretty"]
    /\ cache = None
    /\ pc = "done"
    /\ InitLocals
    /\ InitDecorators

----------------------------------------------------------------------------
(* get_releases *)

\* a filter flag that ignores --no-filter
ShouldFilterAlways(o) == TRUE

\* main.rs:113
ShouldFilterInit(o) == ~o.unfiltered

\* main.rs:83-92 succeed
Fetch ==
    /\ pc = "fetch"
    /\ pc' = "iter"
    /\ UNCHANGED <<feed, opts, cache, idx, lines, li, should_filter, filtered,
                   summary, releases, produced, shown>>
    /\ UNCHANGED <<err, cache0, reported, cache_lost>>
    /\ UNCHANGED decVars

\* main.rs:83-92: one of the `?` returns the error, main returns it at :172
FetchFail ==
    /\ pc = "fetch"
    /\ pc' = "failed"
    /\ UNCHANGED <<feed, opts, cache, idx, lines, li, should_filter, filtered,
                   summary, releases, produced, shown>>
    /\ err' = "fetch"
    /\ UNCHANGED <<cache0, reported, cache_lost>>
    /\ UNCHANGED decVars

\* main.rs:96-101: the entry is rejected by .filter or by .filter_map
SkipEntry ==
    /\ pc = "iter"
    /\ idx <= Len(feed)
    /\ ~(CategoryMatch(feed[idx]) /\ HasFields(feed[idx]))
    /\ idx' = idx + 1
    /\ UNCHANGED <<feed, opts, cache, pc, lines, li, should_filter, filtered,
                   summary, releases, produced, shown>>
    /\ UNCHANGED <<err, cache0, reported, cache_lost>>
    /\ UNCHANGED decVars

\* a closure whose filter flag is a variable shared by all entries
BeginEntryKeepsLatch ==
    /\ pc = "iter"
    /\ idx <= Len(feed)
    /\ CategoryMatch(feed[idx])
    /\ HasFields(feed[idx])
    /\ should_filter' = IF releases = <<>>
                        THEN ShouldFilterInit(opts)
                        ELSE should_filter
    /\ lines' = InitialLines(Parsed(feed[idx]), ShouldFilterInit(opts))
    /\ filtered' = <<>>
    /\ summary' = <<>>
    /\ li' = 1
    /\ pc' = "walk"
    /\ UNCHANGED <<feed, opts, cache, idx, releases, produced, shown>>
    /\ UNCHANGED <<err, cache0, reported, cache_lost>>
    /\ UNCHANGED decVars

\* main.rs:102-122: the .map closure up to the loop
BeginEntry ==
    /\ pc = "iter"
    /\ idx <= Len(feed)
    /\ CategoryMatch(feed[idx])
    /\ HasFields(feed[idx])
    /\ should_filter' = ShouldFilterInit(opts)
    /\ lines' = InitialLines(Parsed(feed[idx]), ShouldFilterInit(opts))
    /\ filtered' = <<>>
    /\ summary' = <<>>
    /\ li' = 1
    /\ pc' = "walk"
    /\ UNCHANGED <<feed, opts, cache, idx, releases, produced, shown>>
    /\ UNCHANGED <<err, cache0, reported, cache_lost>>
    /\ UNCHANGED decVars

\* main.rs:124-158: one iteration of the loop
WalkLine ==
    /\ pc = "walk"
    /\ li <= Len(lines)
    /\ LET r == FilterLine(should_filter, filtered, summary, lines[li])
       IN  /\ should_filter' = r.should_filter
           /\ filtered' = r.filtered
           /\ summary' = r.summary
    /\ li' = li + 1
    /\ UNCHANGED <<feed, opts, cache, pc, idx, lines, releases, produced, shown>>
    /\ UNCHANGED <<err, cache0, reported, cache_lost>>
    /\ UNCHANGED decVars

\* main.rs:159-166: the Release is built and collected
EmitRelease ==
    /\ pc = "walk"
    /\ li > Len(lines)
    /\ releases' = Append(releases, MakeRelease(feed[idx], summary, filtered))
    /\ idx' = idx + 1
    /\ pc' = "iter"
    /\ UNCHANGED <<feed, opts, cache, lines, li, should_filter, filtered,
                   summary, produced, shown>>
    /\ UNCHANGED <<err, cache0, reported, cache_lost>>
    /\ UNCHANGED decVars

\* main.rs:124-158: the loop, from line i on
RECURSIVE WalkFrom(_, _, _)
WalkFrom(ls, i, st) ==
    IF i > Len(ls) THEN st
    ELSE WalkFrom(ls, i + 1,
                  FilterLine(st.should_filter, st.filtered, st.summary, ls[i]))

\* main.rs:102-165: the .map closure, from an entry to its Release
ReleaseOf(e, o) ==
    LET sf == ShouldFilterInit(o)
        st == WalkFrom(InitialLines(Parsed(e), sf), 1,
                       [should_filter |-> sf, filtered |-> <<>>,
                        summary |-> <<>>])
    IN  MakeRelease(e, st.summary, st.filtered)

\* main.rs:93-166: the pipeline, from the entries to the collected Vec
RECURSIVE Collect(_, _)
Collect(f, o) ==
    IF f = <<>> THEN <<>>
    ELSE IF CategoryMatch(Head(f)) /\ HasFields(Head(f))
    THEN <<ReleaseOf(Head(f), o)>> \o Collect(Tail(f), o)
    ELSE Collect(Tail(f), o)

----------------------------------------------------------------------------
(* main *)

\* main.rs:172-173: get_releases returns, the Vec is sorted
Sort ==
    /\ pc = "iter"
    /\ idx > Len(feed)
    /\ produced' = releases
    /\ releases' = SortDesc(releases)
    /\ pc' = "cutoff"
    /\ UNCHANGED <<feed, opts, cache, idx, lines, li, should_filter, filtered,
                   summary, shown>>
    /\ UNCHANGED <<err, cache0, reported, cache_lost>>
    /\ UNCHANGED decVars

\* main.rs:174-175: one of the `?` returns the error
CacheDirFail ==
    /\ pc = "cutoff"
    /\ pc' = "failed"
    /\ UNCHANGED <<feed, opts, cache, idx, lines, li, should_filter, filtered,
                   summary, releases, produced, shown>>
    /\ err' = "cachedir"
    /\ UNCHANGED <<cache0, reported, cache_lost>>
    /\ UNCHANGED decVars

\* main.rs:176-182
Cutoff ==
    /\ pc = "cutoff"
    /\ releases' = IF CutoffApplies(opts, cache)
                   THEN Retain(releases, cache[1])
                   ELSE releases
    /\ pc' = "output"
    /\ UNCHANGED <<feed, opts, cache, idx, lines, li, should_filter, filtered,
                   summary, produced, shown>>
    /\ UNCHANGED <<err, cache0, reported, cache_lost>>
    /\ UNCHANGED decVars

\* main.rs:183-217: every Release is written or shown
OutputOk ==
    /\ pc = "output"
    /\ shown' = Len(releases)
    /\ pc' = "write"
    /\ UNCHANGED <<feed, opts, cache, idx, lines, li, should_filter, filtered,
                   summary, releases, produced>>
    /\ UNCHANGED <<err, cache0, reported, cache_lost>>
    /\ UNCHANGED decVars

\* an output step that records the newest timestamp before it fails
OutputFailCacheWritten ==
    /\ pc = "output"
    /\ \/ /\ opts.format = "Json"
          /\ shown' = 0
       \/ /\ opts.format = "Notification"
          /\ \E k \in 1..Len(releases) : shown' = k - 1
    /\ cache' = IF opts.diff /\ releases # <<>>
                THEN Some(releases[1].timestamp)
                ELSE cache
    /\ pc' = "failed"
    /\ err' = "output"
    /\ UNCHANGED <<feed, opts, idx, lines, li, should_filter, filtered,
                   summary, releases, produced>>
    /\ UNCHANGED <<cache0, reported, cache_lost>>
    /\ UNCHANGED decVars

\* main.rs:185: to_writer(..)? fails; main.rs:214: the k-th show()? fails
OutputFail ==
    /\ pc = "output"
    /\ \/ /\ opts.format = "Json"
          /\ shown' = 0
       \/ /\ opts.format = "Notification"
          /\ \E k \in 1..Len(releases) : shown' = k - 1
    /\ pc' = "failed"
    /\ UNCHANGED <<feed, opts, cache, idx, lines, li, should_filter, filtered,
                   summary, releases, produced>>
    /\ err' = "output"
    /\ UNCHANGED <<cache0, reported, cache_lost>>
    /\ UNCHANGED decVars

\* the timestamp of the last Release of the Vec
OldestTimestamp(rs) == rs[Len(rs)].timestamp

\* main.rs:219-221: releases.first(), its timestamp
LatestTimestamp(rs) == rs[1].timestamp

\* main.rs:218-223
WriteCache ==
    /\ pc = "write"
    /\ cache' = IF opts.diff /\ releases # <<>>
                THEN Some(LatestTimestamp(releases))
                ELSE cache
    /\ pc' = "done"
    /\ UNCHANGED <<feed, opts, idx, lines, li, should_filter, filtered,
                   summary, releases, produced, shown>>
    /\ reported' = IF opts.diff
                   THEN reported \cup {releases[i] : i \in DOMAIN releases}
                   ELSE reported
    /\ UNCHANGED <<err, cache0, cache_lost>>
    /\ UNCHANGED decVars

\* main.rs:221: File::create(..)? fails and leaves the file as it was, or
\* it has truncated the file and to_writer(..)? fails
WriteCacheFail ==
    /\ pc = "write"
    /\ opts.diff
    /\ releases # <<>>
    /\ cache' \in {cache, None}
    /\ pc' = "failed"
    /\ UNCHANGED <<feed, opts, idx, lines, li, should_filter, filtered,
                   summary, releases, produced, shown>>
    /\ err' = "write"
    /\ cache_lost' = (cache_lost \/ (cache # None /\ cache' = None))
    /\ UNCHANGED <<cache0, reported>>
    /\ UNCHANGED decVars

Next ==
    \/ Fetch
    \/ FetchFail
    \/ SkipEntry
    \/ BeginEntry
    \/ WalkLine
    \/ EmitRelease
    \/ Sort
    \/ CacheDirFail
    \/ Cutoff
    \/ OutputOk
    \/ OutputFail
    \/ WriteCache
    \/ WriteCacheFail

Spec == Init /\ [][Next]_vars

----------------------------------------------------------------------------
(* runs of main one after the other, the cache file kept between them *)

RunEntries ==
    {Entry(<<"ChromeOS">>, Some("T1"), Body(TextPlain), Some(t)) : t \in 1..MaxTs}
    \cup {Entry(<<"Chrome">>, Some("T3"), Body(TextPlain), Some(MaxTs))}

RunFeeds == UNION {[1..k -> RunEntries] : k \in 0..MaxEntries}

RunOpts == [unfiltered : {FALSE}, diff : BOOLEAN, format : Formats]

RunCaches == {None} \cup {Some(t) : t \in 0..MaxTs}

InitRuns ==
    /\ feed \in RunFeeds
    /\ opts \in RunOpts
    /\ cache \in RunCaches
    /\ pc = "fetch"
    /\ InitLocals
    /\ InitDecorators

\* main.rs:169-171: the program is started again after main has returned
NextRun ==
    /\ pc \in {"done", "failed"}
    /\ feed' \in RunFeeds
    /\ opts' \in RunOpts
    /\ pc' = "fetch"
    /\ idx' = 1
    /\ lines' = <<>>
    /\ li' = 1
    /\ should_filter' = FALSE
    /\ filtered' = <<>>
    /\ summary' = <<>>
    /\ releases' = <<>>
    /\ produced' = <<>>
    /\ shown' = 0
    /\ err' = "none"
    /\ cache0' = cache
    /\ UNCHANGED <<cache, reported, cache_lost>>
    /\ UNCHANGED decVars

NextRuns ==
    \/ Next
    \/ NextRun

SpecRuns == InitRuns /\ [][NextRuns]_vars

----------------------------------------------------------------------------
(* The decorators as the renderer drives them *)

\* the links the renderer has opened and not yet closed, over all instances
RECURSIVE OpenLinkCount(_)
OpenLinkCount(ol) ==
    IF ol = <<>> THEN 0 ELSE Len(Head(ol)) + OpenLinkCount(Tail(ol))

\* html2md, main.rs:64 and :68, with MdDecorator::new / PlainDecorator::new
DecoratorNew(v) ==
    /\ Len(decos) < MaxDecorators
    /\ heap' = Append(heap, "")
    /\ decos' = Append(decos, [variant |-> v, cell |-> Len(heap) + 1])
    /\ opened' = Append(opened, None)
    /\ inherited' = Append(inherited, "")
    /\ origin' = Append(origin, 0)
    /\ open_links' = Append(open_links, <<>>)
    /\ ret' = [op |-> "new", inst |-> Len(decos) + 1, text |-> <<>>,
               closed |-> None]
    /\ UNCHANGED mainVars

\* decorate_link_start, decorators.rs:19-22 and :111-114
LinkStart(i, url) ==
    /\ OpenLinkCount(open_links) < MaxOpenLinks
    /\ heap' = StoreLink(heap, decos[i].cell, url)
    /\ ret' = [op |-> "link_start", inst |-> i,
               text |-> LinkPrefix(decos[i].variant), closed |-> None]
    /\ opened' = [opened EXCEPT ![i] = Some(url)]
    /\ open_links' = [open_links EXCEPT ![i] = Append(@, url)]
    /\ UNCHANGED <<decos, inherited, origin>>
    /\ UNCHANGED mainVars

\* decorate_link_end, decorators.rs:24-26 and :116-118
LinkEnd(i) ==
    /\ ret' = [op |-> "link_end", inst |-> i,
               text |-> LinkSuffix(decos[i].variant, CurrentLink(i)),
               closed |-> IF open_links[i] = <<>> THEN None
                          ELSE Some(open_links[i][Len(open_links[i])])]
    /\ open_links' = [open_links EXCEPT
                         ![i] = IF @ = <<>> THEN @
                                ELSE SubSeq(@, 1, Len(@) - 1)]
    /\ UNCHANGED <<decos, heap, opened, inherited, origin>>
    /\ UNCHANGED mainVars

\* make_subblock_decorator, decorators.rs:90-92 and :182-184
MakeSubblock(i) ==
    /\ Len(decos) < MaxDecorators
    /\ LET c == CloneCell(heap, decos[i].cell)
       IN  /\ heap' = c.heap
           /\ decos' = Append(decos, [variant |-> decos[i].variant,
                                      cell |-> c.cell])
    /\ opened' = Append(opened, None)
    /\ inherited' = Append(inherited, CurrentLink(i))
    /\ origin' = Append(origin, i)
    /\ open_links' = Append(open_links, <<>>)
    /\ ret' = [op |-> "subblock", inst |-> Len(decos) + 1, text |-> <<>>,
               closed |-> None]
    /\ UNCHANGED mainVars

NextDec ==
    \/ \E v \in Variants : DecoratorNew(v)
    \/ \E i \in 1..Len(decos) : \E url \in Urls : LinkStart(i, url)
    \/ \E i \in 1..Len(decos) : LinkEnd(i)
    \/ \E i \in 1..Len(decos) : MakeSubblock(i)

SpecDec == InitDec /\ [][NextDec]_vars

----------------------------------------------------------------------------
(* Vocabulary of the properties *)

HasAny(line, pats) == \E i \in DOMAIN line : line[i] \in pats

\* a line the filter treats as the security-fix boundary: it has a security
\* pattern and neither an update nor a reference-link pattern
BoundaryLine(line) ==
    /\ HasAny(line, SecurityPatterns)
    /\ ~HasAny(line, UpdatePatterns)
    /\ ~HasAny(line, ReferencePatterns)

PlainLine(line) ==
    /\ line # <<>>
    /\ ~HasAny(line, UpdatePatterns \cup ReferencePatterns \cup SecurityPatterns)

SetMax(S) == CHOOSE x \in S : \A y \in S : y <= x

SetMin(S) == CHOOSE x \in S : \A y \in S : x <= y

\* the part of a line before the first "Want to know", without the whitespace
\* around it
Truncated(line) ==
    LET wants == {i \in DOMAIN line : line[i] = "Want to know"}
        kept == IF wants = {} THEN line ELSE SubSeq(line, 1, SetMin(wants) - 1)
        solid == {i \in DOMAIN kept : kept[i] # " "}
    IN  IF solid = {} THEN <<>> ELSE SubSeq(kept, SetMin(solid), SetMax(solid))

Walking == pc = "walk"

WalkDone == pc = "walk" /\ li > Len(lines)

\* the lines walked after line j are the end of output_lines, in order
PassedSince(j) ==
    LET n == li - 1 - j
    IN  /\ Len(filtered) >= n
        /\ SubSeq(filtered, Len(filtered) - n + 1, Len(filtered))
               = SubSeq(lines, j + 1, li - 1)

Recognised(e) ==
    \E i \in DOMAIN e.categories :
        e.categories[i] \in {"ChromeOS", "Chrome OS", "ChromeOS Flex", "Chrome OS Flex"}

LacksField(e) == e.title = None \/ e.content = None \/ e.updated = None

LacksFieldOrBody(e) == LacksField(e) \/ e.content[1].body = None

Accepts(e) == Recognised(e) /\ ~LacksField(e)

\* between two entries: the last Release collected, and the entry it is of
Emitted == pc = "iter" /\ releases # <<>>

LastRelease == releases[Len(releases)]

LastEntry == feed[SetMax({i \in 1..(idx - 1) : Accepts(feed[i])})]

RenderedText(e) ==
    IF e.content[1].body = None THEN <<"No content.">> ELSE e.content[1].body[1]

UpdateIdx == {j \in DOMAIN lines : HasAny(lines[j], UpdatePatterns)}

BoundaryIdx == {j \in DOMAIN lines : BoundaryLine(lines[j])}

\* the update lines met while filtering is still active
ActiveUpdateIdx ==
    {j \in UpdateIdx : \A b \in BoundaryIdx : j < b}

----------------------------------------------------------------------------
(* C1 as stated: with filtering enabled, once a walked line that contains a
   security-fix-boundary pattern has been seen, should_filter is false from
   then on and every walked line after it is in output_lines verbatim and in
   order. *)
C1_AnySecurityPatternLatches ==
    (Walking /\ ~opts.unfiltered) =>
        \A j \in 1..(li - 1) :
            HasAny(lines[j], SecurityPatterns) =>
                ~should_filter /\ PassedSince(j)

(* C1 as amended: the same, for a walked line that contains a
   security-fix-boundary pattern and no update or reference-link pattern. *)
C1_BoundaryLineLatches ==
    (Walking /\ ~opts.unfiltered) =>
        \A j \in 1..(li - 1) :
            BoundaryLine(lines[j]) => ~should_filter /\ PassedSince(j)

C1_Witness ==
    /\ WalkDone
    /\ ~opts.unfiltered
    /\ \E j \in 1..(li - 2) :
          /\ BoundaryLine(lines[j])
          /\ PlainLine(lines[li - 1])
          /\ ~should_filter
          /\ PassedSince(j)

(* C2 as stated: with filtering enabled, when the walked lines hold two or
   more update-announcement lines, the summary of the Release is the truncated
   form of the last of them. *)
C2_SummaryIsLastUpdate ==
    (Emitted /\ ~opts.unfiltered /\ Cardinality(UpdateIdx) >= 2) =>
        LastRelease.summary = Truncated(lines[SetMax(UpdateIdx)])

(* C2 as amended: with filtering enabled, when the walked lines hold two or
   more update-announcement lines, the summary of the Release is the truncated
   form of the last of them that precedes every security-boundary line (the
   empty string when none does). *)
C2_SummaryIsLastActiveUpdate ==
    (Emitted /\ ~opts.unfiltered /\ Cardinality(UpdateIdx) >= 2) =>
        LastRelease.summary =
            IF ActiveUpdateIdx = {} THEN <<>>
            ELSE Truncated(lines[SetMax(ActiveUpdateIdx)])

C2_Witness ==
    /\ Emitted
    /\ ~opts.unfiltered
    /\ Cardinality(ActiveUpdateIdx) >= 2
    /\ Truncated(lines[SetMin(ActiveUpdateIdx)])
           # Truncated(lines[SetMax(ActiveUpdateIdx)])
    /\ LastRelease.summary = Truncated(lines[SetMax(ActiveUpdateIdx)])

(* C3: with unfiltered = true the content of the Release is the rendered text
   itself and its summary is the empty string, whatever the lines contain. *)
C3_UnfilteredBypass ==
    (Emitted /\ opts.unfiltered) =>
        /\ LastRelease.content = RenderedText(LastEntry)
        /\ LastRelease.summary = <<>>

C3_Witness ==
    /\ Emitted
    /\ opts.unfiltered
    /\ LastRelease.content
           = Join(<<LineUpdateWant, LineUpdateWant, LineSecurity>> \o FooterPatterns)
    /\ LastRelease.summary = <<>>

(* C4: with filtering enabled the walked lines are the lines left after
   duplicate-collapse without the last 4 of them; when fewer than 4 are left
   all are dropped and the content and the summary of the Release are the
   empty string. *)
C4_TruncationFloor ==
    /\ (Walking /\ ~opts.unfiltered) =>
          LET d == Dedup(Split(RenderedText(feed[idx])))
          IN  /\ Len(lines) = IF Len(d) < 4 THEN 0 ELSE Len(d) - 4
              /\ \A i \in DOMAIN lines : lines[i] = d[i]
    /\ (Emitted /\ ~opts.unfiltered) =>
          LET d == Dedup(Split(RenderedText(LastEntry)))
          IN  Len(d) < 4 =>
                  /\ LastRelease.content = <<>>
                  /\ LastRelease.summary = <<>>

C4_Witness ==
    /\ Emitted
    /\ ~opts.unfiltered
    /\ LET d == Dedup(Split(RenderedText(LastEntry)))
       IN  /\ Len(d) \in 1..3
           /\ \E i \in DOMAIN d : HasAny(d[i], UpdatePatterns)
    /\ LastRelease.content = <<>>

(* C5 as stated: an entry that lacks a title, a content body or an updated
   timestamp is not mapped to a Release: the Releases collected so far are no
   more than the entries read that lack none of them. *)
C5_NoTitleBodyOrTimestampSkipped ==
    /\ Walking => ~LacksFieldOrBody(feed[idx])
    /\ pc \in {"iter", "walk"} =>
          Len(releases)
              <= Cardinality({i \in 1..(idx - 1) : ~LacksFieldOrBody(feed[i])})

(* C5 as amended: an entry that lacks a title, a content element or an updated
   timestamp is not mapped to a Release; an accepted entry whose content
   element has no body is mapped to a Release made from the placeholder text
   "No content.". *)
C5_MissingFieldSkipped ==
    /\ Walking => ~LacksField(feed[idx])
    /\ pc \in {"iter", "walk"} =>
          Len(releases)
              <= Cardinality({i \in 1..(idx - 1) : ~LacksField(feed[i])})
    /\ (pc = "iter" /\ idx > 1 /\ Accepts(feed[idx - 1])
            /\ feed[idx - 1].content[1].body = None) =>
          /\ releases # <<>>
          /\ LastRelease.content
                 = IF opts.unfiltered THEN <<"No content.">> ELSE <<>>
          /\ LastRelease.summary = <<>>

C5_Witness ==
    /\ pc = "iter"
    /\ idx = 2
    /\ Recognised(feed[1])
    /\ feed[1].title = None
    /\ feed[1].content # None
    /\ feed[1].updated # None
    /\ releases = <<>>

(* C6: the Releases collected are one for each entry read that has one of the
   four recognised category terms and all three fields, and none for any
   other entry. *)
C6_OneReleasePerRecognisedEntry ==
    /\ pc \in {"iter", "walk"} =>
          Len(releases) = Cardinality({i \in 1..(idx - 1) : Accepts(feed[i])})
    /\ Walking => Accepts(feed[idx])
    /\ pc = "cutoff" =>
          Len(produced) = Cardinality({i \in DOMAIN feed : Accepts(feed[i])})

C6_Witness ==
    /\ pc = "cutoff"
    /\ Len(produced) = 1
    /\ \E i \in DOMAIN feed : \E j \in DOMAIN feed :
          /\ ~Recognised(feed[i])
          /\ ~LacksField(feed[i])
          /\ Accepts(feed[j])

(* C7: while filtering is active, the step on a line that contains an
   update-announcement pattern sets summary to the part of the line before the
   first "Want to know", trimmed, and appends that same string, once, to
   output_lines. *)
C7_UpdateLineTruncated ==
    [][ (Walking /\ li <= Len(lines) /\ should_filter
             /\ HasAny(lines[li], UpdatePatterns)) =>
            /\ summary' = Truncated(lines[li])
            /\ filtered' = Append(filtered, Truncated(lines[li])) ]_vars

C7_Witness ==
    /\ Walking
    /\ li > 1
    /\ should_filter
    /\ lines[li - 1] = LineUpdateWant
    /\ summary = <<"has been updated">>
    /\ filtered # <<>>
    /\ filtered[Len(filtered)] = <<"has been updated">>

Descending(rs) ==
    \A i \in DOMAIN rs : \A j \in DOMAIN rs :
        i < j => rs[i].timestamp >= rs[j].timestamp

Count(rs, r) == Cardinality({i \in DOMAIN rs : rs[i] = r})

Range(rs) == {rs[i] : i \in DOMAIN rs}

(* C8: after the sort the collection holds the produced Releases in descending
   timestamp order; after the cutoff step it is still descending and, when a
   cutoff was read, holds exactly the produced Releases whose timestamp is
   strictly greater than the cutoff, otherwise all of them. *)
C8_SortedAndCutOff ==
    /\ pc \in {"cutoff", "output", "write", "done"} => Descending(releases)
    /\ pc = "cutoff" =>
          \A r \in Range(produced) \cup Range(releases) :
              Count(releases, r) = Count(produced, r)
    /\ pc \in {"output", "write"} =>
          \A r \in Range(produced) \cup Range(releases) :
              Count(releases, r) =
                  IF opts.diff /\ cache # None /\ r.timestamp <= cache[1]
                  THEN 0
                  ELSE Count(produced, r)

C8_Witness ==
    /\ pc = "output"
    /\ opts.diff
    /\ cache = Some(1)
    /\ Len(produced) = 2
    /\ produced[1].timestamp = 1
    /\ produced[2].timestamp = 2
    /\ Len(releases) = 1
    /\ releases[1].timestamp = 2

ExpectedSuffix(variant, url) ==
    IF variant = "Markdown" THEN <<"](", url, ")">> ELSE <<" (", url, ")">>

(* C9 as stated: decorate_link_end returns the suffix of the variant built
   from the url of the last decorate_link_start on that instance, the empty
   string if there was none. *)
C9_SuffixFromLastOpenOrEmpty ==
    ret.op = "link_end" =>
        ret.text = ExpectedSuffix(decos[ret.inst].variant,
                                  IF opened[ret.inst] = None THEN ""
                                  ELSE opened[ret.inst][1])

(* C9 as amended: decorate_link_end returns the suffix of the variant built
   from the url of the last decorate_link_start on that instance; if there was
   none, from the target the instance was constructed with, which is the empty
   string for new() and the parent's target for make_subblock_decorator. *)
C9_SuffixFromLastOpenOrConstructed ==
    ret.op = "link_end" =>
        ret.text = ExpectedSuffix(decos[ret.inst].variant,
                                  IF opened[ret.inst] = None
                                  THEN inherited[ret.inst]
                                  ELSE opened[ret.inst][1])

\* the outer of two nested links is closed with the url of the inner one
C9_Witness ==
    /\ ret.op = "link_end"
    /\ ret.closed # None
    /\ opened[ret.inst] # None
    /\ ret.closed[1] # opened[ret.inst][1]
    /\ ret.text = ExpectedSuffix(decos[ret.inst].variant, opened[ret.inst][1])

(* C10: the decorator make_subblock_decorator returns has the target of the
   one it was made from, and from then on the target of an instance changes
   only by a decorate_link_start on that same instance. *)
C10_SubblockIndependent ==
    /\ [](ret.op = "subblock" =>
              CurrentLink(ret.inst) = CurrentLink(origin[ret.inst]))
    /\ [][ \A i \in DOMAIN decos :
               heap'[decos'[i].cell] # heap[decos[i].cell] =>
                   ret'.op = "link_start" /\ ret'.inst = i ]_vars

C10_Witness ==
    \E c \in DOMAIN decos :
        /\ origin[c] # 0
        /\ opened[c] # None
        /\ inherited[c] \notin {"", opened[c][1]}
        /\ CurrentLink(c) = opened[c][1]
        /\ CurrentLink(origin[c]) = inherited[c]

\* the entries of f in another order
Orders(f) ==
    {p \in [DOMAIN f -> DOMAIN f] : \A i \in DOMAIN f : \E j \in DOMAIN f : p[j] = i}

Reordered(f, p) == [i \in DOMAIN f |-> f[p[i]]]

Timestamps(rs) == [i \in DOMAIN rs |-> rs[i].timestamp]

\* no two different Releases carry the same timestamp
TimestampsTellApart(rs) ==
    \A i \in DOMAIN rs : \A j \in DOMAIN rs :
        rs[i].timestamp = rs[j].timestamp => rs[i] = rs[j]

(* C11 as stated: the sorted collection is the one the pipeline and the sort
   give for the same entries in any other order, equal timestamps included. *)
C11_AnyOrderSameCollection ==
    pc = "cutoff" =>
        \A p \in Orders(feed) :
            SortDesc(Collect(Reordered(feed, p), opts)) = releases

(* C11 as amended: for the same entries in any other order the pipeline and
   the sort give the same Releases with the same sequence of timestamps, and
   the same collection when no two different Releases carry the same
   timestamp; Releases with equal timestamps stay in the order they were
   collected in. *)
C11_AnyOrderSameUpToTies ==
    pc = "cutoff" =>
        \A p \in Orders(feed) :
            LET other == SortDesc(Collect(Reordered(feed, p), opts))
            IN  /\ Timestamps(other) = Timestamps(releases)
                /\ \A r \in Range(other) \cup Range(releases) :
                       Count(other, r) = Count(releases, r)
                /\ TimestampsTellApart(releases) => other = releases
                /\ \A i \in DOMAIN releases : \A j \in DOMAIN releases :
                       (i < j /\ releases[i].timestamp = releases[j].timestamp) =>
                           \E a \in DOMAIN produced : \E b \in DOMAIN produced :
                               /\ a < b
                               /\ produced[a] = releases[i]
                               /\ produced[b] = releases[j]

C11_Witness ==
    /\ pc = "cutoff"
    /\ Len(produced) = 2
    /\ produced[1].timestamp < produced[2].timestamp
    /\ releases = <<produced[2], produced[1]>>
    /\ \E p \in Orders(feed) :
          /\ Reordered(feed, p) # feed
          /\ SortDesc(Collect(Reordered(feed, p), opts)) = releases

\* the elements of ls at the positions S, in order
AtPositions(ls, S) ==
    [k \in 1..Cardinality(S) |->
        ls[CHOOSE i \in S : Cardinality({j \in S : j < i}) = k - 1]]

\* the lines that differ from the line immediately before them
DiffersFromPrevious(ls) ==
    AtPositions(ls, {i \in DOMAIN ls : i = 1 \/ ls[i] # ls[i - 1]})

NoAdjacentRepeat(ls) == \A i \in DOMAIN ls : i > 1 => ls[i] # ls[i - 1]

(* C12: duplicate-line removal keeps exactly the lines that differ from the
   line immediately before them (a repeat that is not adjacent is kept), its
   result has no two equal adjacent lines, removing again changes nothing, and
   the walked lines are the beginning of that result. *)
C12_DedupAdjacentOnly ==
    (Walking /\ ~opts.unfiltered) =>
        LET all == Split(RenderedText(feed[idx]))
            d == Dedup(all)
        IN  /\ d = DiffersFromPrevious(all)
            /\ NoAdjacentRepeat(d)
            /\ Dedup(d) = d
            /\ Len(lines) <= Len(d)
            /\ \A i \in DOMAIN lines : lines[i] = DiffersFromPrevious(all)[i]

C12_Witness ==
    /\ Walking
    /\ ~opts.unfiltered
    /\ LET all == Split(RenderedText(feed[idx]))
           d == Dedup(all)
       IN  /\ Len(d) < Len(all)
           /\ \E i \in DOMAIN d : \E j \in DOMAIN d : j > i + 1 /\ d[i] = d[j]
           /\ lines # <<>>

AnyPattern(line) ==
    HasAny(line, UpdatePatterns \cup ReferencePatterns \cup SecurityPatterns)

\* a step of the loop on a line, taken while filtering is active
ActiveStepOn(line) ==
    Walking /\ li <= Len(lines) /\ should_filter /\ line = lines[li]

(* C13: while filtering is active, the step on a line with a security pattern
   and no update or reference-link pattern appends an empty line and then the
   line, leaves summary as it is and clears should_filter; no other step
   appends more than one element, so output_lines never holds more than the
   walked lines and one inserted line. *)
C13_BoundaryInsertsOneSeparator ==
    /\ [](Walking =>
              Len(filtered) <= (li - 1)
                  + (IF should_filter \/ opts.unfiltered THEN 0 ELSE 1))
    /\ [][ (ActiveStepOn(lines[li]) /\ BoundaryLine(lines[li])) =>
               /\ filtered' = filtered \o <<(<<>>), lines[li]>>
               /\ summary' = summary
               /\ ~should_filter' ]_vars
    /\ [][ (Walking /\ pc' = "walk" /\ Len(filtered') > Len(filtered) + 1) =>
               /\ should_filter
               /\ ~should_filter' ]_vars

\* two boundary lines walked, one separator
C13_Witness ==
    /\ Walking
    /\ ~opts.unfiltered
    /\ li > 2
    /\ BoundaryLine(lines[1])
    /\ \E k \in 2..(li - 1) : BoundaryLine(lines[k])
    /\ filtered = <<(<<>>)>> \o SubSeq(lines, 1, li - 1)
    /\ summary = <<>>
    /\ ~should_filter

(* C14: while filtering is active, the step on a line with an update pattern
   and a security pattern is the update step alone (summary and one appended
   element are the truncated line, should_filter stays set), and the step on a
   line with a reference-link pattern, a security pattern and no update
   pattern appends the line alone and leaves should_filter set; a line without
   any pattern that follows is dropped. *)
C14_UpdateThenReferenceThenSecurity ==
    /\ [][ (ActiveStepOn(lines[li]) /\ HasAny(lines[li], UpdatePatterns)
                /\ HasAny(lines[li], SecurityPatterns)) =>
               /\ summary' = Truncated(lines[li])
               /\ filtered' = Append(filtered, Truncated(lines[li]))
               /\ should_filter' ]_vars
    /\ [][ (ActiveStepOn(lines[li]) /\ HasAny(lines[li], ReferencePatterns)
                /\ HasAny(lines[li], SecurityPatterns)
                /\ ~HasAny(lines[li], UpdatePatterns)) =>
               /\ summary' = summary
               /\ filtered' = Append(filtered, lines[li])
               /\ should_filter' ]_vars
    /\ [](( /\ Walking
            /\ ~opts.unfiltered
            /\ li > 2
            /\ \A j \in 1..(li - 3) : ~BoundaryLine(lines[j])
            /\ HasAny(lines[li - 2], UpdatePatterns \cup ReferencePatterns)
            /\ HasAny(lines[li - 2], SecurityPatterns)
            /\ ~AnyPattern(lines[li - 1]) ) =>
              /\ should_filter
              /\ filtered # <<>>
              /\ filtered[Len(filtered)] =
                     IF HasAny(lines[li - 2], UpdatePatterns)
                     THEN Truncated(lines[li - 2])
                     ELSE lines[li - 2])

C14_Witness ==
    /\ Walking
    /\ li = 3
    /\ should_filter
    /\ HasAny(lines[1], UpdatePatterns)
    /\ HasAny(lines[1], SecurityPatterns)
    /\ PlainLine(lines[2])
    /\ filtered = <<Truncated(lines[1])>>
    /\ summary = Truncated(lines[1])

(* C15: while filtering is active, the step on a line without any pattern
   changes nothing, the step on a line with a pattern appends to output_lines,
   and the step on a line with a reference-link pattern and no update pattern
   appends the line unmodified and leaves summary as it is; for the rendered
   lines A, A, B, C, D, E the filtered content is the empty string. *)
C15_OnlyPatternLinesKept ==
    /\ [][ (ActiveStepOn(lines[li]) /\ ~AnyPattern(lines[li])) =>
               /\ filtered' = filtered
               /\ summary' = summary
               /\ should_filter' ]_vars
    /\ [][ (ActiveStepOn(lines[li]) /\ AnyPattern(lines[li])) =>
               Len(filtered') > Len(filtered) ]_vars
    /\ [][ (ActiveStepOn(lines[li]) /\ HasAny(lines[li], ReferencePatterns)
                /\ ~HasAny(lines[li], UpdatePatterns)) =>
               /\ filtered' = Append(filtered, lines[li])
               /\ summary' = summary ]_vars
    /\ [](( /\ Emitted
            /\ ~opts.unfiltered
            /\ RenderedText(LastEntry)
                   = <<"A", "\n", "A", "\n", "B", "\n", "C", "\n", "D", "\n", "E">> ) =>
              /\ lines = <<(<<"A">>)>>
              /\ LastRelease.content = <<>>)

C15_Witness ==
    /\ Emitted
    /\ ~opts.unfiltered
    /\ RenderedText(LastEntry)
           = <<"A", "\n", "A", "\n", "B", "\n", "C", "\n", "D", "\n", "E">>
    /\ lines = <<(<<"A">>)>>
    /\ filtered = <<>>
    /\ LastRelease.content = <<>>

\* the filter state at the end of the walk of entry e, filtering enabled
FinalState(e) ==
    WalkFrom(InitialLines(Parsed(e), TRUE), 1,
             [should_filter |-> TRUE, filtered |-> <<>>, summary |-> <<>>])

(* C16: every entry starts its walk with should_filter = ~unfiltered, an
   empty summary and an empty output_lines, and the Releases collected so far
   are, entry by entry, the Releases the closure makes of each accepted entry
   on its own, whatever was processed before it. *)
C16_FreshFilterStatePerEntry ==
    /\ (Walking /\ li = 1) =>
           /\ should_filter = ~opts.unfiltered
           /\ filtered = <<>>
           /\ summary = <<>>
    /\ pc = "iter" =>
           /\ releases = Collect(SubSeq(feed, 1, idx - 1), opts)
           /\ Emitted => LastRelease = ReleaseOf(LastEntry, opts)
    /\ WalkDone =>
           MakeRelease(feed[idx], summary, filtered) = ReleaseOf(feed[idx], opts)

\* the second entry starts right after an entry whose walk cleared the latch
C16_Witness ==
    /\ Walking
    /\ li = 1
    /\ idx = 2
    /\ Len(releases) = 1
    /\ ~opts.unfiltered
    /\ ~FinalState(feed[1]).should_filter
    /\ should_filter
    /\ lines # <<>>

(* C19: during the walk summary is empty or an element of output_lines; a
   step of the walk changes summary only when filtering is active and the line
   holds an update pattern, so never once should_filter is false. *)
C19_SummaryInOutputWrittenByUpdate ==
    /\ [](Walking =>
              \/ summary = <<>>
              \/ \E i \in DOMAIN filtered : filtered[i] = summary)
    /\ [][ (Walking /\ pc' = "walk" /\ summary' # summary) =>
               /\ li <= Len(lines)
               /\ should_filter
               /\ HasAny(lines[li], UpdatePatterns)
               /\ summary' = Truncated(lines[li]) ]_vars
    /\ [][ (Walking /\ pc' = "walk" /\ ~should_filter) =>
               /\ summary' = summary
               /\ ~should_filter' ]_vars

\* an update line walked after the latch was cleared left summary alone
C19_Witness ==
    /\ Walking
    /\ ~opts.unfiltered
    /\ ~should_filter
    /\ li > 1
    /\ HasAny(lines[li - 1], UpdatePatterns)
    /\ summary # <<>>
    /\ summary # Truncated(lines[li - 1])
    /\ \E i \in DOMAIN filtered : filtered[i] = summary
    /\ filtered[Len(filtered)] = lines[li - 1]

MaxTimestamp(rs) == SetMax({rs[i].timestamp : i \in DOMAIN rs})

\* the output step has begun in this run
OutputBegun ==
    \/ pc \in {"output", "write"}
    \/ pc = "failed" /\ err \in {"output", "write"}

(* C17: over runs of main that find the cache file readable, the cached
   timestamp never decreases; it is rewritten only by the write step of a run
   with --diff in which a Release survived the cutoff, to the greatest
   surviving timestamp, greater than the value it replaces; a run without a
   surviving Release leaves it alone; and no Release a run with --diff puts
   out is as old as a Release an earlier completed run with --diff put out. *)
C17_CacheNeverDecreases ==
    /\ [][ (cache # None /\ cache' # None) => cache'[1] >= cache[1] ]_vars
    /\ [][ (cache' # cache /\ cache' # None) =>
               /\ pc = "write"
               /\ opts.diff
               /\ releases # <<>>
               /\ cache'[1] = MaxTimestamp(releases)
               /\ cache # None => cache'[1] > cache[1] ]_vars
    /\ [][ (pc = "write" /\ releases = <<>>) => cache' = cache ]_vars
    /\ []((OutputBegun /\ opts.diff /\ ~cache_lost) =>
              \A i \in DOMAIN releases : \A q \in reported :
                  /\ releases[i].timestamp > q.timestamp
                  /\ releases[i] # q)

\* a later run reports a new Release and cuts off one reported before
C17_Witness ==
    /\ pc = "write"
    /\ opts.diff
    /\ ~cache_lost
    /\ cache # None
    /\ releases # <<>>
    /\ \E i \in DOMAIN produced :
           /\ produced[i] \in reported
           /\ \A j \in DOMAIN releases : releases[j] # produced[i]
    /\ MaxTimestamp(releases) > cache[1]

\* what a run of main on feed f with options o and cache content c puts out
Reportable(f, o, c) ==
    IF CutoffApplies(o, c)
    THEN Retain(SortDesc(Collect(f, o)), c[1])
    ELSE SortDesc(Collect(f, o))

(* C18: the cache file differs from what the run found only after the output
   step has put out every Release; a run whose output step failed leaves the
   file as it found it, with the Releases it was reporting being those a run
   on the same feed reports from that file; a run without --diff leaves the
   file alone and reports every collected Release. *)
C18_CacheWrittenAfterOutput ==
    /\ cache # cache0 =>
           /\ pc \in {"done", "failed"}
           /\ err \in {"none", "write"}
           /\ shown = Len(releases)
           /\ opts.diff
           /\ releases # <<>>
    /\ (pc = "failed" /\ err = "output") =>
           /\ cache = cache0
           /\ releases = Reportable(feed, opts, cache)
    /\ pc = "output" => releases = Reportable(feed, opts, cache)
    /\ ~opts.diff =>
           /\ cache = cache0
           /\ pc \in {"output", "write", "done"} =>
                  releases = SortDesc(Collect(feed, opts))

\* the second notification of a run with --diff could not be shown
C18_Witness ==
    /\ pc = "failed"
    /\ err = "output"
    /\ opts.format = "Notification"
    /\ opts.diff
    /\ shown >= 1
    /\ shown < Len(releases)
    /\ cache # None
    /\ cache = cache0
    /\ releases = Reportable(feed, opts, cache)

====
